---- MODULE Spec2Model ----
(***************************************************************************)
(* Model of src/main.py: the WordPress MCP server.  Seven tools, each of   *)
(* which builds a URL under WORDPRESS_URL, awaits one HTTP GET through     *)
(* fetch_post_response_data, and projects the parsed JSON.                 *)
(*                                                                         *)
(* Python values (parsed JSON, tool results) are tagged records, so that   *)
(* the behaviour of subscripting and iteration, which depends on the type  *)
(* of the value, can be modelled.  A URL is a sequence of text chunks      *)
(* whose concatenation is the URL's text; a scheme prefix is a chunk of    *)
(* its own.                                                                *)
(***************************************************************************)
EXTENDS Integers, Sequences, FiniteSets, TLC

VARIABLES environ, WORDPRESS_URL, pc, call, url, resp, fetched, result, trace

vars == <<environ, WORDPRESS_URL, pc, call, url, resp, fetched, result, trace>>

(***************************************************************************)
(* Bounds of the model.                                                    *)
(***************************************************************************)
MaxLen == 2
NProcs == 2

(***************************************************************************)
(* Python / JSON values.                                                   *)
(***************************************************************************)
JNull == [kind |-> "null"]
JNum(n) == [kind |-> "number", num |-> n]
JStr(s) == [kind |-> "string", str |-> s]
JArr(s) == [kind |-> "array", items |-> s]
JObj(f) == [kind |-> "object", members |-> f]

IsObj(v) == v.kind = "object"
IsArr(v) == v.kind = "array"
Keys(v) == DOMAIN v.members

Drop(o, k) == [j \in DOMAIN o \ {k} |-> o[j]]
With(o, k, v) == [j \in DOMAIN o \cup {k} |-> IF j = k THEN v ELSE o[j]]

(***************************************************************************)
(* Outcome of evaluating an expression: a value, or a raised exception.    *)
(***************************************************************************)
Ok(v) == [ok |-> TRUE, value |-> v]
Raise(e) == [ok |-> FALSE, error |-> e]

KeyError(k) == [exc |-> "KeyError", key |-> k]
TypeError == [exc |-> "TypeError"]
UnsupportedProtocol == [exc |-> "UnsupportedProtocol"]
ConnectError == [exc |-> "ConnectError"]
StatusMessage == "error status for url"
InvalidJsonMessage == "Invalid JSON response from"

HTTPStatusError(msg, u, r) ==
    [exc |-> "HTTPStatusError", message |-> msg, request |-> u, response |-> r]

Min(S) == CHOOSE m \in S : \A n \in S : m <= n

RECURSIVE SetToSeq(_)
SetToSeq(S) == IF S = {} THEN <<>>
               ELSE LET x == CHOOSE y \in S : TRUE IN <<x>> \o SetToSeq(S \ {x})

RECURSIVE Text(_)
Text(chunks) == IF chunks = <<>> THEN "" ELSE Head(chunks) \o Text(Tail(chunks))

(***************************************************************************)
(* Configuration: WORDPRESS_URL = os.getenv("WORDPRESS_URL"), evaluated    *)
(* once when the module is loaded.  environ is the process environment     *)
(* after load_dotenv().                                                    *)
(***************************************************************************)
PyNone == [kind |-> "None"]
PyStr(chunks) == [kind |-> "str", chunks |-> chunks]

os_getenv_default(env) == IF env.set THEN PyStr(env.chunks)
                          ELSE PyStr(<<"http://", "localhost">>)

os_getenv(env) == IF env.set THEN PyStr(env.chunks) ELSE PyNone

\* f"{v}" of a str or of None
Format(v) == IF v.kind = "None" THEN <<"None">> ELSE v.chunks

\* f"{n}" of an int
FormatInt(n) == <<ToString(n)>>

(***************************************************************************)
(* The tools, their parameters and their URLs.                             *)
(***************************************************************************)
Tools == {"fetch_wordpress_info", "fetch_posts", "fetch_posts_by_category",
          "fetch_categories", "fetch_post_by_id", "fetch_pages",
          "fetch_page_by_id"}

PostListTools == {"fetch_posts", "fetch_posts_by_category", "fetch_pages"}
ListTools == PostListTools \cup {"fetch_categories"}
ByIdTools == {"fetch_post_by_id", "fetch_page_by_id"}

NoArgs == [k \in {} |-> 0]

DefaultsPerPage10(tool) ==
    CASE tool \in {"fetch_posts", "fetch_pages"} -> [page |-> 1, per_page |-> 10]
      [] tool = "fetch_posts_by_category" -> [page |-> 1]
      [] OTHER -> NoArgs

\* the default values of the tools' signatures
Defaults(tool) ==
    CASE tool \in {"fetch_posts", "fetch_pages"} -> [page |-> 1, per_page |-> 2]
      [] tool = "fetch_posts_by_category" -> [page |-> 1]
      [] OTHER -> NoArgs

\* the parameters of a call: the arguments given, the defaults for the others
Bind(tool, args) ==
    LET d == Defaults(tool)
    IN [k \in DOMAIN d \cup DOMAIN args |-> IF k \in DOMAIN args THEN args[k] ELSE d[k]]

\* the f-string of each tool
BuildUrl(base, tool, a) ==
    CASE tool = "fetch_wordpress_info" -> Format(base) \o <<"/wp-json">>
      [] tool = "fetch_posts" ->
            Format(base) \o <<"/wp-json/wp/v2/posts?page=">> \o FormatInt(a.page)
                \o <<"&per_page=">> \o FormatInt(a.per_page)
      [] tool = "fetch_posts_by_category" ->
            Format(base) \o <<"/wp-json/wp/v2/posts?categories=">> \o <<a.category>>
                \o <<"&page=">> \o FormatInt(a.page)
      [] tool = "fetch_categories" -> Format(base) \o <<"/wp-json/wp/v2/categories">>
      [] tool = "fetch_post_by_id" ->
            Format(base) \o <<"/wp-json/wp/v2/posts/">> \o FormatInt(a.post_id)
      [] tool = "fetch_pages" ->
            Format(base) \o <<"/wp-json/wp/v2/pages?page=">> \o FormatInt(a.page)
                \o <<"&per_page=">> \o FormatInt(a.per_page)
      [] tool = "fetch_page_by_id" ->
            Format(base) \o <<"/wp-json/wp/v2/pages/">> \o FormatInt(a.page_id)

(***************************************************************************)
(* fetch_post_response_data.                                               *)
(***************************************************************************)
NoData == [ok |-> FALSE, error |-> [exc |-> "none"]]
NoResp == [kind |-> "none"]
NetFail == [kind |-> "neterror"]
Response(status, body) == [kind |-> "response", status |-> status, body |-> body]
TextBody(t) == [json |-> FALSE, text |-> t]
JsonBody(v) == [json |-> TRUE, value |-> v]

\* httpx refuses a URL with no http:// or https:// scheme before sending it
HasScheme(u) == Len(u) > 0 /\ u[1] \in {"http://", "https://"}

\* await client.get(url, headers=headers), up to the suspension
client_get(u) ==
    IF HasScheme(u)
    THEN [pc |-> "awaiting", fetched |-> NoData, events |-> <<"get">>]
    ELSE [pc |-> "closing", fetched |-> Raise(UnsupportedProtocol), events |-> <<>>]

is_success(status) == 200 <= status /\ status <= 299

raise_for_status_errors_only(r, u) ==
    IF r.status < 400 THEN Ok(r)
    ELSE Raise(HTTPStatusError(StatusMessage, u, r))

\* response.raise_for_status()
raise_for_status(r, u) ==
    IF is_success(r.status) THEN Ok(r)
    ELSE Raise(HTTPStatusError(StatusMessage, u, r))

\* response.json()
response_json(r) == IF r.body.json THEN Ok(r.body.value)
                    ELSE Raise([exc |-> "ValueError"])

\* the statements of fetch_post_response_data after the response has arrived
after_get(r, u) ==
    LET s == raise_for_status(r, u)
    IN IF ~s.ok THEN s
       ELSE LET j == response_json(r)
            IN IF j.ok THEN j
               ELSE Raise(HTTPStatusError(InvalidJsonMessage, u, r))

on_response_retry(r, u) ==
    IF r.status >= 500
    THEN [pc |-> "awaiting", fetched |-> NoData, events |-> <<"response", "get">>]
    ELSE [pc |-> "closing", fetched |-> after_get(r, u), events |-> <<"response">>]

\* the coroutine resumed with the response, up to the exit of the async with
on_response(r, u) ==
    [pc |-> "closing", fetched |-> after_get(r, u), events |-> <<"response">>]

\* the coroutine resumed with a connection failure
on_neterror == [pc |-> "closing", fetched |-> Raise(ConnectError), events |-> <<"neterror">>]

(***************************************************************************)
(* Shaping: subscripts, the dict displays and the list comprehensions.     *)
(***************************************************************************)
subscript_get_default(v, k) ==
    IF IsObj(v) THEN (IF k \in Keys(v) THEN Ok(v.members[k]) ELSE Ok(JNull))
    ELSE Raise(TypeError)

\* v[k] for a str k: a dict looks the key up, any other JSON value has no
\* str subscripts
subscript(v, k) ==
    IF IsObj(v) THEN (IF k \in Keys(v) THEN Ok(v.members[k]) ELSE Raise(KeyError(k)))
    ELSE Raise(TypeError)

\* v[path[1]][path[2]]...
RECURSIVE Lookup(_, _)
Lookup(v, path) ==
    IF path = <<>> THEN Ok(v)
    ELSE LET s == subscript(v, Head(path))
         IN IF s.ok THEN Lookup(s.value, Tail(path)) ELSE s

\* a dict display {out: v[path], ...}: the entries are evaluated in order and
\* the first exception leaves the display
Project(v, fields) ==
    LET looked == [i \in 1..Len(fields) |-> Lookup(v, fields[i].path)]
        bad == {i \in 1..Len(fields) : ~looked[i].ok}
        outs == {fields[i].out : i \in 1..Len(fields)}
    IN IF bad # {} THEN looked[Min(bad)]
       ELSE Ok(JObj([k \in outs |->
                looked[CHOOSE i \in 1..Len(fields) : fields[i].out = k].value]))

Field(out, path) == [out |-> out, path |-> path]

PostFieldsTitleObject ==
    << Field("id", <<"id">>), Field("date", <<"date">>), Field("link", <<"link">>),
       Field("title", <<"title">>), Field("content", <<"content", "rendered">>),
       Field("featured_media", <<"featured_media">>) >>

PostFields ==
    << Field("id", <<"id">>), Field("date", <<"date">>), Field("link", <<"link">>),
       Field("title", <<"title", "rendered">>),
       Field("content", <<"content", "rendered">>),
       Field("featured_media", <<"featured_media">>) >>

CategoryFields ==
    << Field("id", <<"id">>), Field("name", <<"name">>),
       Field("count", <<"count">>), Field("link", <<"link">>) >>

InfoFields ==
    << Field("name", <<"name">>), Field("description", <<"description">>),
       Field("url", <<"url">>) >>

format_post_response_data(response) == Project(response, PostFields)

\* the dict display of fetch_categories
shape_category(category) == Project(category, CategoryFields)

ShapeItem(what, v) == IF what = "category" THEN shape_category(v)
                      ELSE format_post_response_data(v)

\* for x in v: a list yields its items, a dict its keys, a str its characters
\* (each a str: one stands for them all), anything else is not iterable
Iterate(v) ==
    CASE v.kind = "array" -> Ok(v.items)
      [] v.kind = "object" -> Ok([i \in 1..Cardinality(Keys(v)) |->
                                     JStr(SetToSeq(Keys(v))[i])])
      [] v.kind = "string" -> Ok(IF v.str = "" THEN <<>> ELSE <<JStr(v.str)>>)
      [] OTHER -> Raise(TypeError)

RECURSIVE ComprehendSkipping(_, _, _, _)
ComprehendSkipping(what, items, acc, events) ==
    IF items = <<>> THEN [outcome |-> Ok(JArr(acc)), events |-> events]
    ELSE LET s == ShapeItem(what, Head(items))
         IN ComprehendSkipping(what, Tail(items),
                               IF s.ok THEN Append(acc, s.value) ELSE acc,
                               Append(events, "shape"))

RECURSIVE ComprehendReversed(_, _, _, _)
ComprehendReversed(what, items, acc, events) ==
    IF items = <<>> THEN [outcome |-> Ok(JArr(acc)), events |-> events]
    ELSE LET s == ShapeItem(what, Head(items))
         IN IF s.ok THEN ComprehendReversed(what, Tail(items), <<s.value>> \o acc,
                                            Append(events, "shape"))
            ELSE [outcome |-> s, events |-> Append(events, "shape")]

\* [shape(x) for x in items]: the first exception leaves the comprehension
RECURSIVE Comprehend(_, _, _, _)
Comprehend(what, items, acc, events) ==
    IF items = <<>> THEN [outcome |-> Ok(JArr(acc)), events |-> events]
    ELSE LET s == ShapeItem(what, Head(items))
         IN IF s.ok THEN Comprehend(what, Tail(items), Append(acc, s.value),
                                    Append(events, "shape"))
            ELSE [outcome |-> s, events |-> Append(events, "shape")]

\* the statements of a tool after fetch_post_response_data: data is what the
\* fetcher returned or raised
ToolBody(tool, data) ==
    IF ~data.ok THEN [outcome |-> data, events |-> <<>>]
    ELSE CASE tool = "fetch_wordpress_info" ->
                [outcome |-> Project(data.value, InfoFields), events |-> <<"shape">>]
           [] tool \in ByIdTools ->
                [outcome |-> format_post_response_data(data.value),
                 events |-> <<"shape">>]
           [] tool \in ListTools ->
                LET it == Iterate(data.value)
                IN IF ~it.ok THEN [outcome |-> it, events |-> <<>>]
                   ELSE Comprehend(IF tool = "fetch_categories" THEN "category"
                                   ELSE "post", it.value, <<>>, <<>>)

\* the coroutine resumed after the client is closed, up to its end
finish(tool, data) ==
    LET b == ToolBody(tool, data)
    IN [pc |-> IF b.outcome.ok THEN "returned" ELSE "failed",
        result |-> b.outcome,
        events |-> <<"close">> \o b.events
                   \o <<IF b.outcome.ok THEN "return" ELSE "raise">>]

(***************************************************************************)
(* Inputs: the environment, the calls the host makes and what the remote   *)
(* site may answer.                                                        *)
(***************************************************************************)
Unset == [set |-> FALSE]
SetTo(chunks) == [set |-> TRUE, chunks |-> chunks]

Environs == {Unset, SetTo(<<"https://", "example.com">>), SetTo(<<"example.com">>)}

Call(tool, args) == [tool |-> tool, args |-> args]
NoCall == [tool |-> "none"]

PagingArgs == {NoArgs, [page |-> 3], [per_page |-> 100],
               [page |-> 0, per_page |-> -1], [page |-> 1, per_page |-> 2]}

Calls ==
    {Call("fetch_wordpress_info", NoArgs), Call("fetch_categories", NoArgs)}
    \cup {Call(t, a) : t \in {"fetch_posts", "fetch_pages"}, a \in PagingArgs}
    \cup {Call("fetch_posts_by_category", a) :
            a \in {[category |-> "news"], [category |-> "7", page |-> 2]}}
    \cup {Call("fetch_post_by_id", [post_id |-> i]) : i \in {10, 999, -1}}
    \cup {Call("fetch_page_by_id", [page_id |-> i]) : i \in {10, 999}}

GoodPost(i) ==
    [id |-> JNum(i),
     date |-> JStr("2024-05-01T10:00:" \o ToString(i)),
     link |-> JStr("https://example.com/?p=" \o ToString(i)),
     title |-> JObj([rendered |-> JStr("Title " \o ToString(i))]),
     content |-> JObj([rendered |-> JStr("<p>Body " \o ToString(i) \o "</p>"),
                       protected |-> JStr("false")]),
     featured_media |-> JNum(0),
     status |-> JStr("publish")]

RequiredPostKeys == {"id", "date", "link", "title", "content", "featured_media"}

PostVariants(i) ==
    {GoodPost(i), Drop(GoodPost(i), "status")}
    \cup {Drop(GoodPost(i), k) : k \in RequiredPostKeys}
    \cup {With(GoodPost(i), "title", JObj([raw |-> JStr("t")])),
          With(GoodPost(i), "title", JStr("plain title")),
          With(GoodPost(i), "content", JNull),
          Drop(With(GoodPost(i), "title", JStr("plain title")), "featured_media")}

PostItems ==
    {JObj(GoodPost(10)), JObj(GoodPost(11)), JObj(Drop(GoodPost(11), "id")),
     JObj(With(GoodPost(10), "title", JStr("plain title"))), JNum(7)}

GoodCategory(i) ==
    [id |-> JNum(i), name |-> JStr("News " \o ToString(i)), count |-> JNum(5 + i),
     link |-> JStr("https://x/cat/" \o ToString(i))]

CategoryItems ==
    {JObj(GoodCategory(1)), JObj(With(GoodCategory(2), "slug", JStr("news"))),
     JObj(Drop(GoodCategory(2), "count")), JNull}

GoodInfo ==
    [name |-> JStr("Site"), description |-> JStr("Just another site"),
     url |-> JStr("https://example.com"), gmt_offset |-> JNum(0)]

\* the sequences over S of length at most n
SeqsUpTo(S, n) == UNION {[1..k -> S] : k \in 0..n}

JsonValues ==
    {JObj(o) : o \in PostVariants(10)}
    \cup {JArr(s) : s \in SeqsUpTo(PostItems, MaxLen)}
    \cup {JArr(s) : s \in SeqsUpTo(CategoryItems, MaxLen)}
    \cup {JObj(GoodInfo), JObj(Drop(GoodInfo, "description"))}
    \cup {JNull, JNum(5), JStr(""), JStr("ok"), JObj(NoArgs)}

NotJsonTexts == {"<html>not json</html>", ""}

ErrorBodies == {TextBody(""), JsonBody(JObj([code |-> JStr("rest_post_invalid_id")])),
                JsonBody(JObj(GoodPost(10))), JsonBody(JArr(<<JObj(GoodCategory(1))>>))}

Responses ==
    {Response(200, JsonBody(v)) : v \in JsonValues}
    \cup {Response(200, TextBody(t)) : t \in NotJsonTexts}
    \cup {Response(st, b) : st \in {204, 301, 404, 500}, b \in ErrorBodies}

\* the inputs of the concurrent specification
ConcCalls ==
    {Call("fetch_wordpress_info", NoArgs), Call("fetch_categories", NoArgs),
     Call("fetch_posts", NoArgs), Call("fetch_pages", [page |-> 3]),
     Call("fetch_posts_by_category", [category |-> "news"]),
     Call("fetch_post_by_id", [post_id |-> 10]),
     Call("fetch_page_by_id", [page_id |-> 999])}

ConcResponses ==
    {Response(200, JsonBody(JObj(GoodPost(10)))),
     Response(200, JsonBody(JArr(<<JObj(GoodPost(11))>>))),
     Response(200, TextBody("<html>not json</html>")),
     Response(404, JsonBody(JObj([code |-> JStr("rest_post_invalid_id")])))}

Procs == {1}
ConcProcs == 1..NProcs

(***************************************************************************)
(* The state machine.  pc[p] is where invocation slot p stands: "idle",    *)
(* "awaiting" (the GET is in flight), "closing" (the fetcher has the       *)
(* response or an exception and the client is being closed), "returned"    *)
(* or "failed" (the tool ended; the host has yet to take the outcome).     *)
(***************************************************************************)
InitOver(P) ==
    /\ environ \in Environs
    /\ WORDPRESS_URL = os_getenv(environ)
    /\ pc = [p \in P |-> "idle"]
    /\ call = [p \in P |-> NoCall]
    /\ url = [p \in P |-> <<>>]
    /\ resp = [p \in P |-> NoResp]
    /\ fetched = [p \in P |-> NoData]
    /\ result = [p \in P |-> NoData]
    /\ trace = [p \in P |-> <<>>]

data_seen_shared(p) ==
    IF \E q \in DOMAIN pc : q # p /\ pc[q] = "closing"
    THEN fetched[CHOOSE q \in DOMAIN pc : q # p /\ pc[q] = "closing"]
    ELSE fetched[p]

\* response_data, a local of the tool's coroutine
data_seen(p) == fetched[p]

\* the host calls a tool: the URL is built and the GET is issued
Invoke(p, c) ==
    /\ pc[p] = "idle"
    /\ LET u == BuildUrl(WORDPRESS_URL, c.tool, Bind(c.tool, c.args))
           g == client_get(u)
       IN /\ call' = [call EXCEPT ![p] = c]
          /\ url' = [url EXCEPT ![p] = u]
          /\ pc' = [pc EXCEPT ![p] = g.pc]
          /\ fetched' = [fetched EXCEPT ![p] = g.fetched]
          /\ trace' = [trace EXCEPT ![p] = g.events]
    /\ UNCHANGED <<environ, WORDPRESS_URL, resp, result>>

\* the response arrives: raise_for_status and json
Receive(p, r) ==
    /\ pc[p] = "awaiting"
    /\ LET o == on_response(r, url[p])
       IN /\ pc' = [pc EXCEPT ![p] = o.pc]
          /\ fetched' = [fetched EXCEPT ![p] = o.fetched]
          /\ trace' = [trace EXCEPT ![p] = @ \o o.events]
    /\ resp' = [resp EXCEPT ![p] = r]
    /\ UNCHANGED <<environ, WORDPRESS_URL, call, url, result>>

\* the connection fails instead
ConnectFail(p) ==
    /\ pc[p] = "awaiting"
    /\ pc' = [pc EXCEPT ![p] = on_neterror.pc]
    /\ fetched' = [fetched EXCEPT ![p] = on_neterror.fetched]
    /\ trace' = [trace EXCEPT ![p] = @ \o on_neterror.events]
    /\ resp' = [resp EXCEPT ![p] = NetFail]
    /\ UNCHANGED <<environ, WORDPRESS_URL, call, url, result>>

\* the client is closed and the tool shapes and returns, or the exception
\* leaves the tool
Finish(p) ==
    /\ pc[p] = "closing"
    /\ LET f == finish(call[p].tool, data_seen(p))
       IN /\ pc' = [pc EXCEPT ![p] = f.pc]
          /\ result' = [result EXCEPT ![p] = f.result]
          /\ trace' = [trace EXCEPT ![p] = @ \o f.events]
    /\ UNCHANGED <<environ, WORDPRESS_URL, call, url, resp, fetched>>

\* the host takes the outcome; the coroutine and its locals are gone
Collect(p) ==
    /\ pc[p] \in {"returned", "failed"}
    /\ pc' = [pc EXCEPT ![p] = "idle"]
    /\ call' = [call EXCEPT ![p] = NoCall]
    /\ url' = [url EXCEPT ![p] = <<>>]
    /\ resp' = [resp EXCEPT ![p] = NoResp]
    /\ fetched' = [fetched EXCEPT ![p] = NoData]
    /\ result' = [result EXCEPT ![p] = NoData]
    /\ trace' = [trace EXCEPT ![p] = <<>>]
    /\ UNCHANGED <<environ, WORDPRESS_URL>>

Init == InitOver(Procs)

Next ==
    \E p \in Procs :
        \/ \E c \in Calls : Invoke(p, c)
        \/ \E r \in Responses : Receive(p, r)
        \/ ConnectFail(p)
        \/ Finish(p)
        \/ Collect(p)

Spec == Init /\ [][Next]_vars

InitConc == InitOver(ConcProcs)

NextConc ==
    \E p \in ConcProcs :
        \/ \E c \in ConcCalls : Invoke(p, c)
        \/ \E r \in ConcResponses : Receive(p, r)
        \/ ConnectFail(p)
        \/ Finish(p)
        \/ Collect(p)

SpecConc == InitConc /\ [][NextConc]_vars

(***************************************************************************)
(* Vocabulary of the properties.                                           *)
(***************************************************************************)
Done(p) == pc[p] \in {"returned", "failed"}

GotResponse(p) == resp[p].kind = "response"
Got2xx(p) == GotResponse(p) /\ resp[p].status \in 200..299
GotJson2xx(p) == Got2xx(p) /\ resp[p].body.json

Count(s, e) == Cardinality({i \in DOMAIN s : s[i] = e})

RequiredPaths(what) ==
    IF what = "category" THEN {<<"id">>, <<"name">>, <<"count">>, <<"link">>}
    ELSE {<<"id">>, <<"date">>, <<"link">>, <<"title", "rendered">>,
          <<"content", "rendered">>, <<"featured_media">>}

RECURSIVE HasPath(_, _)
HasPath(v, path) ==
    /\ v.kind = "object"
    /\ Head(path) \in DOMAIN v.members
    /\ (Len(path) = 1 \/ HasPath(v.members[Head(path)], Tail(path)))

MissingPaths(v, what) == {path \in RequiredPaths(what) : ~HasPath(v, path)}
Complete(v, what) == v.kind = "object" /\ MissingPaths(v, what) = {}

\* a missing path whose parent is there but is no object: title or content
\* holding a string, a number, null or a list
BlockedPaths(v, what) ==
    {path \in MissingPaths(v, what) :
        /\ Len(path) = 2
        /\ path[1] \in DOMAIN v.members
        /\ v.members[path[1]].kind # "object"}

\* the key whose absence makes the path missing
AbsentKeys(v, what) ==
    {path[1] : path \in {q \in MissingPaths(v, what) : q[1] \notin DOMAIN v.members}}
    \cup {path[2] : path \in {q \in MissingPaths(v, what) :
                                /\ Len(q) = 2
                                /\ q[1] \in DOMAIN v.members
                                /\ v.members[q[1]].kind = "object"}}

WhatOf(tool) == IF tool = "fetch_categories" THEN "category" ELSE "post"

\* the value a failing or succeeding shape step of p was applied to first:
\* the object of a by-id tool, the first incomplete element of a list tool
HasSubject(p) ==
    /\ Done(p) /\ GotJson2xx(p)
    /\ \/ call[p].tool \in ByIdTools
       \/ /\ call[p].tool \in ListTools
          /\ resp[p].body.value.kind = "array"
          /\ \E i \in DOMAIN resp[p].body.value.items :
                ~Complete(resp[p].body.value.items[i], WhatOf(call[p].tool))

Subject(p) ==
    IF call[p].tool \in ByIdTools THEN resp[p].body.value
    ELSE LET items == resp[p].body.value.items
         IN items[Min({i \in DOMAIN items : ~Complete(items[i], WhatOf(call[p].tool))})]

MissesKey(p) ==
    /\ HasSubject(p)
    /\ Subject(p).kind = "object"
    /\ MissingPaths(Subject(p), WhatOf(call[p].tool)) # {}

ExpectedPost(v) ==
    JObj([id |-> v.members.id, date |-> v.members.date, link |-> v.members.link,
          title |-> v.members.title.members.rendered,
          content |-> v.members.content.members.rendered,
          featured_media |-> v.members.featured_media])

ExpectedCategory(v) ==
    JObj([id |-> v.members.id, name |-> v.members.name,
          count |-> v.members.count, link |-> v.members.link])

(***************************************************************************)
(* C1.  A 2xx response whose body is not JSON makes the call fail with an  *)
(* error of another kind than the one a non-2xx status raises.             *)
(***************************************************************************)
StatusFailureKind ==
    raise_for_status(Response(404, TextBody("")), <<>>).error.exc

C1_InvalidJsonHasItsOwnKind ==
    \A p \in DOMAIN pc :
        (Done(p) /\ Got2xx(p) /\ ~resp[p].body.json) =>
            /\ pc[p] = "failed"
            /\ result[p].error.exc # StatusFailureKind

(***************************************************************************)
(* C2.  A response with a status outside 2xx, whatever its body, makes     *)
(* the fetcher raise a status failure carrying that status; the tool ends  *)
(* in that failure and returns nothing.                                    *)
(***************************************************************************)
C2_Non2xxFails ==
    \A p \in DOMAIN pc :
        (GotResponse(p) /\ resp[p].status \notin 200..299) =>
            /\ pc[p] # "returned"
            /\ ~fetched[p].ok
            /\ fetched[p].error.exc = "HTTPStatusError"
            /\ fetched[p].error.response.status = resp[p].status
            /\ Done(p) => /\ pc[p] = "failed"
                          /\ result[p] = fetched[p]

C2_Witness ==
    \E p \in DOMAIN pc :
        /\ pc[p] = "failed"
        /\ call[p] = Call("fetch_post_by_id", [post_id |-> 999])
        /\ GotResponse(p) /\ resp[p].status = 404 /\ resp[p].body.json
        /\ result[p].error.exc = "HTTPStatusError"

C4_ListFailsFast ==
    \A p \in DOMAIN pc :
        (Done(p) /\ GotJson2xx(p) /\ call[p].tool \in ListTools
            /\ resp[p].body.value.kind = "array") =>
            LET items == resp[p].body.value.items
            IN /\ (\E i \in DOMAIN items : ~Complete(items[i], WhatOf(call[p].tool)))
                    => pc[p] = "failed"
               /\ pc[p] = "returned" => Len(result[p].value.items) = Len(items)

C4_Witness ==
    \E p \in DOMAIN pc :
        /\ pc[p] = "failed" /\ GotJson2xx(p)
        /\ call[p].tool \in ListTools
        /\ resp[p].body.value.kind = "array"
        /\ Len(resp[p].body.value.items) = 2
        /\ Complete(resp[p].body.value.items[1], WhatOf(call[p].tool))
        /\ ~Complete(resp[p].body.value.items[2], WhatOf(call[p].tool))

(***************************************************************************)
(* C5.  format_post_response_data of an object holding the six required    *)
(* keys is the object of exactly id, date, link, title, content and        *)
(* featured_media, title and content being the rendered members, every     *)
(* value as it was.                                                        *)
(***************************************************************************)
C5_ShapePostExact ==
    \A p \in DOMAIN pc :
        (Done(p) /\ GotJson2xx(p)) =>
            LET v == resp[p].body.value
            IN /\ (call[p].tool \in ByIdTools /\ Complete(v, "post")) =>
                    /\ pc[p] = "returned"
                    /\ result[p].value = ExpectedPost(v)
               /\ (call[p].tool \in PostListTools /\ v.kind = "array"
                        /\ pc[p] = "returned") =>
                    \A i \in DOMAIN v.items :
                        result[p].value.items[i] = ExpectedPost(v.items[i])

C5_Witness ==
    \E p \in DOMAIN pc :
        /\ pc[p] = "returned" /\ GotJson2xx(p)
        /\ call[p].tool = "fetch_page_by_id"
        /\ "status" \in DOMAIN resp[p].body.value.members
        /\ DOMAIN result[p].value.members = RequiredPostKeys
        /\ result[p].value.members.title = JStr("Title 10")

(***************************************************************************)
(* C6.  An invocation sends at most one GET, and exactly one on every      *)
(* path that has a response (success, non-2xx status, non-JSON body,       *)
(* shaping failure); the GET is the first thing it does, nothing is sent   *)
(* after a response or a failure, and a shaping step only follows the      *)
(* response.                                                               *)
(***************************************************************************)
C6_OneGetPerInvocation ==
    \A p \in DOMAIN pc :
        LET t == trace[p]
        IN /\ Count(t, "get") <= 1
           /\ (GotResponse(p) \/ resp[p] = NetFail) =>
                 /\ Count(t, "get") = 1
                 /\ Count(t, "response") + Count(t, "neterror") = 1
           /\ \A i \in DOMAIN t : t[i] = "get" => i = 1
           /\ \A i \in DOMAIN t :
                 t[i] = "shape" => \E k \in 1..(i - 1) : t[k] = "response"

C6_Witness ==
    \E p \in DOMAIN pc :
        /\ pc[p] = "failed" /\ Got2xx(p)
        /\ result[p].error.exc = "KeyError"
        /\ Count(trace[p], "get") = 1
        /\ Count(trace[p], "shape") = 2

(***************************************************************************)
(* C7.  Whatever the other invocations do, the outcome of an invocation    *)
(* is the one its own call, the base URL read at start and the answer to   *)
(* its own request determine; the base URL never changes.                  *)
(***************************************************************************)
OutcomeOf(c, base, answer) ==
    LET u == BuildUrl(base, c.tool, Bind(c.tool, c.args))
        data == IF ~HasScheme(u) THEN Raise(UnsupportedProtocol)
                ELSE IF answer.kind = "response" THEN after_get(answer, u)
                ELSE Raise(ConnectError)
    IN ToolBody(c.tool, data).outcome

C7_OwnInputsOnly ==
    \A p \in DOMAIN pc :
        Done(p) => result[p] = OutcomeOf(call[p], os_getenv(environ), resp[p])

C7_Independent ==
    /\ []C7_OwnInputsOnly
    /\ [][WORDPRESS_URL' = WORDPRESS_URL]_vars

C7_Witness ==
    /\ Cardinality(DOMAIN pc) >= 2
    /\ \E p, q \in DOMAIN pc :
        /\ p # q
        /\ pc[p] = "returned" /\ pc[q] = "failed"
        /\ call[p].tool = "fetch_post_by_id" /\ call[q].tool = "fetch_categories"
        /\ Got2xx(p) /\ Got2xx(q)

(***************************************************************************)
(* C8.  The URL an invocation requests is its tool's template under the    *)
(* configured base with its own parameters, page defaulting to 1 and       *)
(* per_page to 2; any integer is passed through and requested.             *)
(***************************************************************************)
ArgOr(args, k, d) == IF k \in DOMAIN args THEN args[k] ELSE d

TemplateText(c) ==
    LET a == c.args
    IN CASE c.tool = "fetch_wordpress_info" -> "/wp-json"
         [] c.tool = "fetch_posts" ->
              "/wp-json/wp/v2/posts?page=" \o ToString(ArgOr(a, "page", 1))
                  \o "&per_page=" \o ToString(ArgOr(a, "per_page", 2))
         [] c.tool = "fetch_posts_by_category" ->
              "/wp-json/wp/v2/posts?categories=" \o a.category
                  \o "&page=" \o ToString(ArgOr(a, "page", 1))
         [] c.tool = "fetch_categories" -> "/wp-json/wp/v2/categories"
         [] c.tool = "fetch_post_by_id" ->
              "/wp-json/wp/v2/posts/" \o ToString(a.post_id)
         [] c.tool = "fetch_pages" ->
              "/wp-json/wp/v2/pages?page=" \o ToString(ArgOr(a, "page", 1))
                  \o "&per_page=" \o ToString(ArgOr(a, "per_page", 2))
         [] c.tool = "fetch_page_by_id" ->
              "/wp-json/wp/v2/pages/" \o ToString(a.page_id)

C8_UrlOfTemplate ==
    \A p \in DOMAIN pc :
        (pc[p] # "idle" /\ environ.set) =>
            /\ Text(url[p]) = Text(environ.chunks) \o TemplateText(call[p])
            /\ call[p] = Call("fetch_posts", NoArgs) =>
                 Text(url[p]) = Text(environ.chunks)
                                    \o "/wp-json/wp/v2/posts?page=1&per_page=2"
            /\ environ.chunks[1] = "https://" => trace[p][1] = "get"

C8_Witness ==
    \E p \in DOMAIN pc :
        /\ pc[p] = "awaiting"
        /\ call[p] = Call("fetch_posts", NoArgs)
        /\ Text(url[p]) = "https://example.com/wp-json/wp/v2/posts?page=1&per_page=2"

(***************************************************************************)
(* C9.  fetch_categories, answered 2xx with a JSON array of objects that   *)
(* each hold id, name, count and link, returns the list of the same        *)
(* length and order whose i-th entry is exactly those four members of the  *)
(* i-th element.                                                           *)
(***************************************************************************)
C9_CategoriesExact ==
    \A p \in DOMAIN pc :
        (Done(p) /\ GotJson2xx(p) /\ call[p].tool = "fetch_categories"
            /\ resp[p].body.value.kind = "array"
            /\ \A i \in DOMAIN resp[p].body.value.items :
                  Complete(resp[p].body.value.items[i], "category")) =>
            LET items == resp[p].body.value.items
            IN /\ pc[p] = "returned"
               /\ result[p].value =
                    JArr([i \in 1..Len(items) |-> ExpectedCategory(items[i])])

C9_Witness ==
    \E p \in DOMAIN pc :
        /\ pc[p] = "returned" /\ GotJson2xx(p)
        /\ call[p].tool = "fetch_categories"
        /\ resp[p].body.value.kind = "array"
        /\ Len(resp[p].body.value.items) = 2
        /\ resp[p].body.value.items[1] = JObj(With(GoodCategory(2), "slug", JStr("news")))
        /\ resp[p].body.value.items[2] = JObj(GoodCategory(1))
        /\ result[p].value = JArr(<<JObj(GoodCategory(2)), JObj(GoodCategory(1))>>)

====
